---- MODULE Spec2Model ----
(***************************************************************************)
(* License ownership ledger of AppBound.                                   *)
(*                                                                         *)
(* The ledger is the CollectibleLicenseNFT contract                        *)
(* (src/appbound/contracts/AppBoundLicense.sol, lines 77-302): minting,    *)
(* open minting, batch minting, redeem, burn and the ERC721 transfer with  *)
(* its _beforeTokenTransfer hook.  The administrator's revoke is the one   *)
(* of the white-paper AppBoundLicense (src/bootstrap-mvp.js, 523-532), and *)
(* the issuance service is POST /api/auth of src/appbound/backend/index.js *)
(* reading the ledger through userAppToken and checkLicense.               *)
(*                                                                         *)
(* One step of the model is one transaction of the ledger host: a failing  *)
(* require reverts every write of the transaction, so a rejected call      *)
(* leaves every variable as it was.  Each call is a function from the      *)
(* storage to an outcome (error, storage after, token id), so that what a  *)
(* call would answer can be asked of every reachable state.                *)
(***************************************************************************)
EXTENDS Integers, Sequences, FiniteSets, TLC

\* ---------------------------------------------------------------- bounds
\* constructor argument maxSupply_ of the deployment that is checked
MAX_SUPPLY == 2
\* longest batch handed to batchMint
MaxBatch == 2
\* the clock of the backend reads 0..MaxTime (seconds)
MaxTime == 2

\* ------------------------------------------------------------- addresses
Deployer == "deployer"
Users == {"alice", "bob"}
Addrs == {Deployer} \cup Users
\* address(0): the owner of a token that does not exist
NoAddr == "0x0"

\* ---------------------------------------------------------------- inputs
AppIds == {"", "x"}
Expiries == {0, 1}
\* the allowlist commitments setMerkleRoot is called with: 0 (none) or the
\* root of the tree whose only leaf is alice
Roots == {"0", "rootAlice"}

\* keccak256 of an application id: a digest, distinct for distinct ids
keccak256(appId) == <<"keccak256", appId>>
Digests == {keccak256(a) : a \in AppIds}

TokenIds == 1..MAX_SUPPLY

\* bytes(appId).length > 0
NonEmpty(appId) == appId # ""

\* ---------------------------------------------------------------- errors
\* revert reasons of the contract and the answers of the backend, under
\* the names the specification gives them
Ok == "ok"
Unauthorized == "AccessControl: account is missing role"
CapacityExceeded == "Max supply reached"
DuplicateLicense == "User already owns this app"
ArityMismatch == "Array length mismatch"
OpenMintingDisabled == "Open minting disabled"
NotAllowlisted == "Not allowlisted"
NotOwner == "Not owner"
NotEphemeral == "Not ephemeral"
AlreadyRedeemed == "Already redeemed"
SoulboundLocked == "Token is soulbound"
InvalidTokenId == "ERC721: invalid token ID"
NotContractOwner == "Ownable: caller is not the owner"
\* answers of POST /api/auth
Issued == "success"
NoLicenseError == "No license for this wallet & appId"
LicenseExpired == "License expired"
BadRequest == "wallet and appId required"
ServerError == "server error"

\* ----------------------------------------------------------------- state
VARIABLES
    owners,        \* ERC721 _owners: token id -> holder, NoAddr if none
    licenses,      \* token id -> License
    userAppToken,  \* address -> digest -> token id, 0 if none
    redeemed,      \* token id -> BOOLEAN
    nextTokenId,   \* the last id handed out
    openMinting,
    merkleRoot,
    mints,         \* how many mints have succeeded so far
    req,           \* the request POST /api/auth is serving, between its reads
    resp,          \* the last answer of POST /api/auth
    issuedAt,      \* iat of the credential in resp, 0 if resp carries none
    clock          \* Date.now() of the backend

vars == <<owners, licenses, userAppToken, redeemed, nextTokenId,
          openMinting, merkleRoot, mints, req, resp, issuedAt, clock>>
backend == <<req, resp, issuedAt, clock>>
ledger == <<owners, licenses, userAppToken, redeemed, nextTokenId>>

\* struct License, and the value an unwritten or deleted slot reads as
License(appId, expiry, soulbound, ephemeral) ==
    [appId |-> appId, expiry |-> expiry, soulbound |-> soulbound, ephemeral |-> ephemeral]
NoLicense == License("", 0, FALSE, FALSE)

\* the storage of the contract as one value
Storage ==
    [owners |-> owners, licenses |-> licenses, userAppToken |-> userAppToken,
     redeemed |-> redeemed, nextTokenId |-> nextTokenId]

\* roles granted by the constructor
HasMinterRole(a) == a = Deployer
HasAdminRole(a) == a = Deployer

\* MerkleProof.verify(proof, root, leaf(sender)): proofs are the sender's
\* honest path in the committed tree or nothing
MerkleVerify(root, sender) == root = "rootAlice" /\ sender = "alice"

\* _exists(tokenId)
Exists(S, t) == t \in TokenIds /\ S.owners[t] # NoAddr

\* the outcome of a call: the revert reason or Ok, the storage after it,
\* the id it returns and the events it leaves in the transaction log; a
\* revert leaves none
Result(err, S, id) == [err |-> err, S |-> S, id |-> id, log |-> <<>>]
Logged(r, events) == [r EXCEPT !.log = events]

\* event Transfer of ERC721, events LicenseMinted and Redeemed of the
\* contract, event LicenseRevoked of the white-paper contract
TransferEvent(from, to, t) == <<"Transfer", from, to, t>>
LicenseMinted(to, t, appId, expiry) == <<"LicenseMinted", to, t, appId, expiry>>
RedeemedEvent(user, t) == <<"Redeemed", user, t>>
LicenseRevoked(t) == <<"LicenseRevoked", t>>

\* ------------------------------------------------------ transfer hook
\* CollectibleLicenseNFT._beforeTokenTransfer for from # 0 and to # 0,
\* followed by ERC721._transfer's write of the owner
TransferBody(S, from, to, t) ==
    IF S.licenses[t].soulbound THEN Result(SoulboundLocked, S, 0)
    ELSE
        LET lic == S.licenses[t]
            h == keccak256(lic.appId)
            idx1 == IF NonEmpty(lic.appId) /\ S.userAppToken[from][h] = t
                    THEN [S.userAppToken EXCEPT ![from][h] = 0]
                    ELSE S.userAppToken
            idx2 == IF NonEmpty(lic.appId)
                    THEN [idx1 EXCEPT ![to][h] = t]
                    ELSE idx1
        IN Logged(Result(Ok, [S EXCEPT !.userAppToken = idx2, !.owners[t] = to], t),
                  <<TransferEvent(from, to, t)>>)

\* ERC721.transferFrom(from, to, tokenId) called by the owner
TransferFrom(S, from, to, t) ==
    IF ~Exists(S, t) THEN Result(InvalidTokenId, S, 0)
    ELSE IF S.owners[t] # from THEN Result(NotOwner, S, 0)
    ELSE TransferBody(S, from, to, t)

\* ------------------------------------------------------------- minting
\* The body shared by mintCollectible and openMint after their gates.
\* moveTo is what the recipient does in onERC721Received, which _safeMint
\* calls after the token exists and before the license is written: NoAddr
\* accepts the token, an address passes it on with transferFrom.
\* a mint whose duplicate check answers an error without undoing the
\* allocation and the creation of the token made before it
MintBodyPartial(S, to, appId, expiry, soulbound, ephemeral, moveTo) ==
    IF ~(S.nextTokenId < MAX_SUPPLY) THEN Result(CapacityExceeded, S, 0)
    ELSE
        LET tokenId == S.nextTokenId + 1
            S1 == [S EXCEPT !.nextTokenId = tokenId, !.owners[tokenId] = to]
            cb == IF moveTo = NoAddr THEN Result(Ok, S1, tokenId)
                  ELSE TransferFrom(S1, to, moveTo, tokenId)
            S2 == cb.S
            h == keccak256(appId)
            log == <<TransferEvent(NoAddr, to, tokenId)>> \o cb.log
        IN  IF cb.err # Ok THEN Result(cb.err, S, 0)
            ELSE IF ~NonEmpty(appId) THEN Logged(Result(Ok, S2, tokenId), log)
            ELSE IF S2.userAppToken[to][h] # 0 THEN Result(DuplicateLicense, S2, 0)
            ELSE Logged(Result(Ok,
                               [S2 EXCEPT !.licenses[tokenId] =
                                              License(appId, expiry, soulbound, ephemeral),
                                          !.userAppToken[to][h] = tokenId],
                               tokenId),
                        log \o <<LicenseMinted(to, tokenId, appId, expiry)>>)

\* a mint without the duplicate check: the index slot of the recipient is
\* overwritten
MintBodyOverwrite(S, to, appId, expiry, soulbound, ephemeral, moveTo) ==
    IF ~(S.nextTokenId < MAX_SUPPLY) THEN Result(CapacityExceeded, S, 0)
    ELSE
        LET tokenId == S.nextTokenId + 1
            S1 == [S EXCEPT !.nextTokenId = tokenId, !.owners[tokenId] = to]
            cb == IF moveTo = NoAddr THEN Result(Ok, S1, tokenId)
                  ELSE TransferFrom(S1, to, moveTo, tokenId)
            S2 == cb.S
            h == keccak256(appId)
            log == <<TransferEvent(NoAddr, to, tokenId)>> \o cb.log
        IN  IF cb.err # Ok THEN Result(cb.err, S, 0)
            ELSE IF ~NonEmpty(appId) THEN Logged(Result(Ok, S2, tokenId), log)
            ELSE Logged(Result(Ok,
                               [S2 EXCEPT !.licenses[tokenId] =
                                              License(appId, expiry, soulbound, ephemeral),
                                          !.userAppToken[to][h] = tokenId],
                               tokenId),
                        log \o <<LicenseMinted(to, tokenId, appId, expiry)>>)

MintBody(S, to, appId, expiry, soulbound, ephemeral, moveTo) ==
    IF ~(S.nextTokenId < MAX_SUPPLY) THEN Result(CapacityExceeded, S, 0)
    ELSE
        LET tokenId == S.nextTokenId + 1
            S1 == [S EXCEPT !.nextTokenId = tokenId, !.owners[tokenId] = to]
            cb == IF moveTo = NoAddr THEN Result(Ok, S1, tokenId)
                  ELSE TransferFrom(S1, to, moveTo, tokenId)
            S2 == cb.S
            h == keccak256(appId)
            log == <<TransferEvent(NoAddr, to, tokenId)>> \o cb.log
        IN  IF cb.err # Ok THEN Result(cb.err, S, 0)
            ELSE IF ~NonEmpty(appId) THEN Logged(Result(Ok, S2, tokenId), log)
            ELSE IF S2.userAppToken[to][h] # 0 THEN Result(DuplicateLicense, S, 0)
            ELSE Logged(Result(Ok,
                               [S2 EXCEPT !.licenses[tokenId] =
                                              License(appId, expiry, soulbound, ephemeral),
                                          !.userAppToken[to][h] = tokenId],
                               tokenId),
                        log \o <<LicenseMinted(to, tokenId, appId, expiry)>>)

\* mintCollectible whose supply check counts the tokens that exist: once
\* the last token is burned, its place is minted again
MintCollectibleCallOneMore(S, caller, to, appId, expiry, soulbound, ephemeral, moveTo) ==
    IF ~HasMinterRole(caller) THEN Result(Unauthorized, S, 0)
    ELSE IF S.nextTokenId = MAX_SUPPLY /\ S.owners[MAX_SUPPLY] = NoAddr
        THEN MintBody([S EXCEPT !.nextTokenId = MAX_SUPPLY - 1],
                      to, appId, expiry, soulbound, ephemeral, moveTo)
    ELSE MintBody(S, to, appId, expiry, soulbound, ephemeral, moveTo)

\* mintCollectible: onlyRole(MINTER_ROLE), then the body
MintCollectibleCall(S, caller, to, appId, expiry, soulbound, ephemeral, moveTo) ==
    IF ~HasMinterRole(caller) THEN Result(Unauthorized, S, 0)
    ELSE MintBody(S, to, appId, expiry, soulbound, ephemeral, moveTo)

\* openMint: the flag, the supply, the allowlist, then the body
OpenMintCall(S, caller, appId, expiry, soulbound, ephemeral, moveTo) ==
    IF ~openMinting THEN Result(OpenMintingDisabled, S, 0)
    ELSE IF ~(S.nextTokenId < MAX_SUPPLY) THEN Result(CapacityExceeded, S, 0)
    ELSE IF merkleRoot # "0" /\ ~MerkleVerify(merkleRoot, caller)
        THEN Result(NotAllowlisted, S, 0)
    ELSE MintBody(S, caller, appId, expiry, soulbound, ephemeral, moveTo)

\* the transaction commits the outcome of a call that made n mints, or
\* reverts
Apply(r, n) ==
    IF r.err = Ok
    THEN /\ owners' = r.S.owners
         /\ licenses' = r.S.licenses
         /\ userAppToken' = r.S.userAppToken
         /\ redeemed' = r.S.redeemed
         /\ nextTokenId' = r.S.nextTokenId
         /\ mints' = mints + n
    ELSE UNCHANGED <<ledger, mints>>

MintCollectible(caller, to, appId, expiry, soulbound, ephemeral, moveTo) ==
    /\ Apply(MintCollectibleCall(Storage, caller, to, appId, expiry,
                                         soulbound, ephemeral, moveTo), 1)
    /\ UNCHANGED <<openMinting, merkleRoot, backend>>

OpenMint(caller, appId, expiry, soulbound, ephemeral, moveTo) ==
    /\ Apply(OpenMintCall(Storage, caller, appId, expiry,
                                      soulbound, ephemeral, moveTo), 1)
    /\ UNCHANGED <<openMinting, merkleRoot, backend>>

\* ------------------------------------------------------------- transfer
Transfer(from, to, t) ==
    /\ Apply(TransferFrom(Storage, from, to, t), 0)
    /\ UNCHANGED <<openMinting, merkleRoot, backend>>

\* --------------------------------------------------------- batch minting
\* batchMint: entries[i] is <<recipients[i], appIds[i]>>, nRest the common
\* length of the six other lists, whose entries are expiry 0, soulbound and
\* ephemeral false, no royalty; every recipient accepts the token.  The
\* loop runs the body of mintCollectible for each entry and the revert of
\* one entry reverts the transaction.
\* a loop that goes on after an entry that fails, leaving it out
RECURSIVE BatchLoopSkip(_, _, _)
BatchLoopSkip(S, entries, i) ==
    IF i > Len(entries) THEN Result(Ok, S, S.nextTokenId)
    ELSE LET r == MintBody(S, entries[i][1], entries[i][2], 0, FALSE, FALSE, NoAddr)
             rest == BatchLoopSkip(IF r.err = Ok THEN r.S ELSE S, entries, i + 1)
         IN Logged(rest, r.log \o rest.log)

RECURSIVE BatchLoop(_, _, _)
BatchLoop(S, entries, i) ==
    IF i > Len(entries) THEN Result(Ok, S, S.nextTokenId)
    ELSE LET r == MintBody(S, entries[i][1], entries[i][2], 0, FALSE, FALSE, NoAddr)
             rest == BatchLoop(r.S, entries, i + 1)
         IN IF r.err # Ok THEN r
            ELSE IF rest.err # Ok THEN rest
            ELSE Logged(rest, r.log \o rest.log)

\* batchMint without its require on the lengths: the loop runs over the
\* recipients whatever the other lists hold
BatchMintCallNoArity(S, caller, entries, nRest) ==
    IF ~HasMinterRole(caller) THEN Result(Unauthorized, S, 0)
    ELSE LET r == BatchLoop(S, entries, 1)
         IN IF r.err # Ok THEN Result(r.err, S, 0) ELSE r

\* batchMint without onlyRole(MINTER_ROLE)
BatchMintCallAnyone(S, caller, entries, nRest) ==
    IF Len(entries) # nRest THEN Result(ArityMismatch, S, 0)
    ELSE LET r == BatchLoop(S, entries, 1)
         IN IF r.err # Ok THEN Result(r.err, S, 0) ELSE r

BatchMintCall(S, caller, entries, nRest) ==
    IF ~HasMinterRole(caller) THEN Result(Unauthorized, S, 0)
    ELSE IF Len(entries) # nRest THEN Result(ArityMismatch, S, 0)
    ELSE LET r == BatchLoop(S, entries, 1)
         IN IF r.err # Ok THEN Result(r.err, S, 0) ELSE r

BatchMint(caller, entries, nRest) ==
    /\ Apply(BatchMintCall(Storage, caller, entries, nRest), Len(entries))
    /\ UNCHANGED <<openMinting, merkleRoot, backend>>

\* --------------------------------------------------------------- redeem
\* redeem without its "Already redeemed" check
RedeemCallTwice(S, caller, t) ==
    IF ~Exists(S, t) THEN Result(InvalidTokenId, S, 0)
    ELSE IF S.owners[t] # caller THEN Result(NotOwner, S, 0)
    ELSE IF ~S.licenses[t].ephemeral THEN Result(NotEphemeral, S, 0)
    ELSE Logged(Result(Ok, [S EXCEPT !.redeemed[t] = TRUE], t),
                <<RedeemedEvent(caller, t)>>)

RedeemCall(S, caller, t) ==
    IF ~Exists(S, t) THEN Result(InvalidTokenId, S, 0)
    ELSE IF S.owners[t] # caller THEN Result(NotOwner, S, 0)
    ELSE IF ~S.licenses[t].ephemeral THEN Result(NotEphemeral, S, 0)
    ELSE IF S.redeemed[t] THEN Result(AlreadyRedeemed, S, 0)
    ELSE Logged(Result(Ok, [S EXCEPT !.redeemed[t] = TRUE], t),
                <<RedeemedEvent(caller, t)>>)

Redeem(caller, t) ==
    /\ Apply(RedeemCall(Storage, caller, t), 0)
    /\ UNCHANGED <<openMinting, merkleRoot, backend>>

\* ----------------------------------------------------------------- burn
\* a burn that hands the id of the last token back to the counter
BurnTokenReuse(S, t) ==
    [S EXCEPT !.owners[t] = NoAddr,
              !.nextTokenId = IF t = S.nextTokenId THEN t - 1 ELSE S.nextTokenId]

\* ERC721._burn: the owner slot is cleared; redeemed[tokenId] is not
BurnToken(S, t) == [S EXCEPT !.owners[t] = NoAddr]

\* burn without its require on the owner
BurnCallAnyone(S, caller, t) ==
    IF ~Exists(S, t) THEN Result(InvalidTokenId, S, 0)
    ELSE LET lic == S.licenses[t]
             h == keccak256(lic.appId)
             S1 == IF NonEmpty(lic.appId)
                   THEN [S EXCEPT !.userAppToken[caller][h] = 0,
                                  !.licenses[t] = NoLicense]
                   ELSE S
         IN Logged(Result(Ok, BurnToken(S1, t), t),
                   <<TransferEvent(S.owners[t], NoAddr, t)>>)

BurnCall(S, caller, t) ==
    IF ~Exists(S, t) THEN Result(InvalidTokenId, S, 0)
    ELSE IF S.owners[t] # caller THEN Result(NotOwner, S, 0)
    ELSE LET lic == S.licenses[t]
             h == keccak256(lic.appId)
             S1 == IF NonEmpty(lic.appId)
                   THEN [S EXCEPT !.userAppToken[caller][h] = 0,
                                  !.licenses[t] = NoLicense]
                   ELSE S
         IN Logged(Result(Ok, BurnToken(S1, t), t),
                   <<TransferEvent(caller, NoAddr, t)>>)

Burn(caller, t) ==
    /\ Apply(BurnCall(Storage, caller, t), 0)
    /\ UNCHANGED <<openMinting, merkleRoot, backend>>

\* --------------------------------------------------------------- revoke
\* revoke of the white-paper contract: onlyOwner, the index slot is
\* cleared only when it holds this token
RevokeCall(S, caller, t) ==
    IF ~HasAdminRole(caller) THEN Result(NotContractOwner, S, 0)
    ELSE IF ~Exists(S, t) THEN Result(InvalidTokenId, S, 0)
    ELSE LET owner == S.owners[t]
             h == keccak256(S.licenses[t].appId)
             S1 == [S EXCEPT !.licenses[t] = NoLicense]
             S2 == IF S1.userAppToken[owner][h] = t
                   THEN [S1 EXCEPT !.userAppToken[owner][h] = 0]
                   ELSE S1
         IN Logged(Result(Ok, BurnToken(S2, t), t),
                   <<TransferEvent(owner, NoAddr, t), LicenseRevoked(t)>>)

Revoke(caller, t) ==
    /\ Apply(RevokeCall(Storage, caller, t), 0)
    /\ UNCHANGED <<openMinting, merkleRoot, backend>>

\* ------------------------------------------------------- admin controls
SetOpenMinting(caller, enabled) ==
    IF HasAdminRole(caller)
    THEN /\ openMinting' = enabled
         /\ UNCHANGED <<ledger, merkleRoot, mints, backend>>
    ELSE UNCHANGED vars

SetMerkleRoot(caller, root) ==
    IF HasAdminRole(caller)
    THEN /\ merkleRoot' = root
         /\ UNCHANGED <<ledger, openMinting, mints, backend>>
    ELSE UNCHANGED vars

\* ------------------------------------------------------ access issuance
\* userAppToken(wallet, keccak256(appId)): the public getter of the index
UserAppToken(S, wallet, appId) == S.userAppToken[wallet][keccak256(appId)]

\* checkLicense(user, appId): a view call; tokenURI reverts for a token
\* that does not exist
CheckLicense(S, user, appId) ==
    LET tokenId == UserAppToken(S, user, appId)
    IN  IF tokenId = 0 THEN [err |-> Ok, tokenId |-> 0, expiry |-> 0]
        ELSE IF ~Exists(S, tokenId)
            THEN [err |-> InvalidTokenId, tokenId |-> tokenId, expiry |-> 0]
        ELSE [err |-> Ok, tokenId |-> tokenId, expiry |-> S.licenses[tokenId].expiry]

Idle == [pc |-> "idle", wallet |-> NoAddr, appId |-> "", tokenId |-> 0]
NoResponse == [status |-> "none", wallet |-> NoAddr, tokenId |-> 0]
Response(status, wallet, tokenId) ==
    [status |-> status, wallet |-> wallet, tokenId |-> tokenId]

\* the handler after its first read returned tokenId: the answer, or
\* "await" when the handler goes on to its second read
AfterLookup(wallet, appId, tokenId) ==
    IF appId = "" THEN BadRequest
    ELSE IF tokenId = 0 THEN NoLicenseError
    ELSE "await"

\* uint64 and the 53-bit significand of a JavaScript number, scaled down
\* to 3 bits and 2 bits: the largest uint64 and Number.MAX_SAFE_INTEGER
UINT64_MAX == 7
MAX_SAFE_INTEGER == 3
UInt64 == 0..UINT64_MAX

\* Number(n) of a bigint n: n itself up to MAX_SAFE_INTEGER, above it the
\* nearest number with an even last bit of the significand (numbers are
\* two apart there, ties go to the even significand)
Number(n) ==
    IF n <= MAX_SAFE_INTEGER THEN n
    ELSE IF n % 2 = 0 THEN n
    ELSE IF (n \div 2) % 2 = 0 THEN n - 1
    ELSE n + 1

\* meta.expiry ? Number(meta.expiry) : 0
ExpiryOf(meta) == IF meta.expiry # 0 THEN Number(meta.expiry) ELSE 0

\* a handler that lets an expired license through for one more lifetime
\* of a credential
AfterCheckLate(wallet, tokenId, meta, now) ==
    IF meta.err # Ok THEN Response(ServerError, wallet, 0)
    ELSE IF ExpiryOf(meta) # 0 /\ now > ExpiryOf(meta) + 2
        THEN Response(LicenseExpired, wallet, 0)
    ELSE Response(Issued, wallet, tokenId)

\* a handler that refuses from the second of the expiry on
AfterCheckAtExpiry(wallet, tokenId, meta, now) ==
    IF meta.err # Ok THEN Response(ServerError, wallet, 0)
    ELSE IF ExpiryOf(meta) # 0 /\ now >= ExpiryOf(meta)
        THEN Response(LicenseExpired, wallet, 0)
    ELSE Response(Issued, wallet, tokenId)

\* the handler after its second read returned meta, at time now =
\* Math.floor(Date.now() / 1000)
AfterCheck(wallet, tokenId, meta, now) ==
    IF meta.err # Ok THEN Response(ServerError, wallet, 0)
    ELSE IF ExpiryOf(meta) # 0 /\ now > ExpiryOf(meta)
        THEN Response(LicenseExpired, wallet, 0)
    ELSE Response(Issued, wallet, tokenId)

\* POST /api/auth up to its first await: the body is checked, the index read
AuthLookup(wallet, appId) ==
    /\ req.pc = "idle"
    /\ LET tokenId == UserAppToken(Storage, wallet, appId)
           a == AfterLookup(wallet, appId, tokenId)
       IN  IF a = "await"
           THEN /\ req' = [pc |-> "check", wallet |-> wallet, appId |-> appId,
                           tokenId |-> tokenId]
                /\ UNCHANGED <<resp, issuedAt>>
           ELSE /\ req' = Idle
                /\ resp' = Response(a, wallet, 0)
                /\ issuedAt' = 0
    /\ UNCHANGED <<ledger, openMinting, merkleRoot, mints, clock>>

\* POST /api/auth from its second read to the answer
AuthCheck(now) ==
    /\ req.pc = "check"
    /\ resp' = AfterCheck(req.wallet, req.tokenId,
                          CheckLicense(Storage, req.wallet, req.appId), now)
    /\ issuedAt' = IF resp'.status = Issued THEN now ELSE 0
    /\ req' = Idle
    /\ UNCHANGED <<ledger, openMinting, merkleRoot, mints, clock>>

\* expiresIn: "15m" of jwt.sign; time is counted in units of 7.5 minutes
TTL == 2

\* jwt.verify of the credential in resp at time now: the signature is the
\* backend's, and exp = iat + TTL is not reached
CredentialValid(now) == resp.status = Issued /\ now < issuedAt + TTL

\* time passes
Tick ==
    /\ clock < MaxTime
    /\ clock' = clock + 1
    /\ UNCHANGED <<ledger, openMinting, merkleRoot, mints, req, resp, issuedAt>>

\* a request served with no ledger transaction between its two reads
IssueAccess(S, wallet, appId, now) ==
    LET tokenId == UserAppToken(S, wallet, appId)
        a == AfterLookup(wallet, appId, tokenId)
    IN  IF a = "await"
        THEN AfterCheck(wallet, tokenId, CheckLicense(S, wallet, appId), now)
        ELSE Response(a, wallet, 0)

\* ------------------------------------------------------------------ runs
Init ==
    /\ owners = [t \in TokenIds |-> NoAddr]
    /\ licenses = [t \in TokenIds |-> NoLicense]
    /\ userAppToken = [a \in Addrs |-> [h \in Digests |-> 0]]
    /\ redeemed = [t \in TokenIds |-> FALSE]
    /\ nextTokenId = 0
    /\ openMinting = FALSE
    /\ merkleRoot = "0"
    /\ mints = 0
    /\ req = Idle
    /\ resp = NoResponse
    /\ issuedAt = 0
    /\ clock = 0

\* who calls: the deployer holds both roles, alice and bob hold none
Callers == {Deployer, "alice"}
BatchEntries == {<<"alice", "x">>, <<"bob", "x">>, <<"bob", "">>}
Lists(S) == UNION {[1..n -> S] : n \in 0..MaxBatch}
Moves(to) == ({NoAddr} \cup Users) \ {to}

Times == 0..MaxTime

\* the calls that mint, with their inputs
Minting(expiries, flags) ==
    \/ \E to \in Users, appId \in AppIds, expiry \in expiries,
          soulbound \in flags, ephemeral \in flags :
          \E moveTo \in Moves(to) :
            MintCollectible(Deployer, to, appId, expiry, soulbound, ephemeral, moveTo)
    \/ \E appId \in AppIds :
            MintCollectible("alice", "alice", appId, 0, FALSE, FALSE, NoAddr)

OpenMinting(expiries, flags) ==
    \/ \E caller \in Users, appId \in AppIds, expiry \in expiries,
          soulbound \in flags, ephemeral \in flags :
          \E moveTo \in Moves(caller) :
            OpenMint(caller, appId, expiry, soulbound, ephemeral, moveTo)
    \/ \E caller \in Callers, enabled \in BOOLEAN : SetOpenMinting(caller, enabled)
    \/ \E caller \in Callers, root \in Roots : SetMerkleRoot(caller, root)

BatchMinting ==
    \/ \E entries \in Lists(BatchEntries) :
            BatchMint(Deployer, entries, Len(entries))
    \/ \E caller \in Callers, entries \in {<<>>, <<<<"alice", "x">>>>}, nRest \in 0..1 :
            BatchMint(caller, entries, nRest)

\* the calls on tokens that exist
Holding ==
    \/ \E from \in Users, to \in Users, t \in TokenIds : Transfer(from, to, t)
    \/ \E caller \in Users, t \in TokenIds : Redeem(caller, t)
    \/ \E caller \in Users, t \in TokenIds : Burn(caller, t)
    \/ \E caller \in Callers, t \in TokenIds : Revoke(caller, t)

\* the ledger alone: every call of the contract, licenses without expiry
Next ==
    \/ Minting({0}, BOOLEAN)
    \/ OpenMinting({0}, BOOLEAN)
    \/ BatchMinting
    \/ Holding

Spec == Init /\ [][Next]_vars

\* the ledger and the issuance service: licenses with and without expiry,
\* requests served while the ledger moves
NextAuth ==
    \/ Minting(Expiries, {FALSE})
    \/ \E from \in Users, to \in Users, t \in TokenIds : Transfer(from, to, t)
    \/ \E caller \in Users, t \in TokenIds : Burn(caller, t)
    \/ \E caller \in Callers, t \in TokenIds : Revoke(caller, t)
    \/ \E wallet \in Users, appId \in AppIds : AuthLookup(wallet, appId)
    \/ \E now \in Times : AuthCheck(now)

SpecAuth == Init /\ [][NextAuth]_vars

\* the ledger, the issuance service and its clock: every request reads the
\* time of the clock, and the credential it issued is followed while
\* the ledger moves and time passes
NextSession ==
    \/ Minting({0}, {FALSE})
    \/ \E from \in Users, to \in Users, t \in TokenIds : Transfer(from, to, t)
    \/ \E caller \in Users, t \in TokenIds : Burn(caller, t)
    \/ \E caller \in Callers, t \in TokenIds : Revoke(caller, t)
    \/ \E wallet \in Users, appId \in AppIds : AuthLookup(wallet, appId)
    \/ AuthCheck(clock)
    \/ Tick

SpecSession == Init /\ [][NextSession]_vars

\* the life of a license: minted by the minter with or without an expiry,
\* soulbound or not, then transferred, burned or revoked while time passes
NextLife ==
    \/ \E to \in Users, appId \in AppIds, expiry \in Expiries, soulbound \in BOOLEAN :
          \E moveTo \in Moves(to) :
            MintCollectible(Deployer, to, appId, expiry, soulbound, FALSE, moveTo)
    \/ \E from \in Users, to \in Users, t \in TokenIds : Transfer(from, to, t)
    \/ \E caller \in Addrs, t \in TokenIds : Burn(caller, t)
    \/ \E caller \in Callers, t \in TokenIds : Revoke(caller, t)
    \/ Tick

SpecLife == Init /\ [][NextLife]_vars

\* licenses of an application, with and without an expiry, held,
\* transferred and burned while the clock runs and the issuance service
\* answers requests at the time of the clock
NextExpiry ==
    \/ \E to \in Users, appId \in AppIds \ {""}, expiry \in Expiries :
          \E moveTo \in Moves(to) :
            MintCollectible(Deployer, to, appId, expiry, FALSE, FALSE, moveTo)
    \/ \E from \in Users, to \in Users, t \in TokenIds : Transfer(from, to, t)
    \/ \E caller \in Users, t \in TokenIds : Burn(caller, t)
    \/ \E wallet \in Users, appId \in AppIds : AuthLookup(wallet, appId)
    \/ AuthCheck(clock)
    \/ Tick

SpecExpiry == Init /\ [][NextExpiry]_vars

\* address a holds no live license of application appId
FreshFor(a, appId) ==
    ~NonEmpty(appId) \/
    {t \in TokenIds : owners[t] = a /\ licenses[t].appId = appId} = {}

\* the ledger when no transfer, in a receipt callback or on its own, goes
\* to an address that holds a live license of the token's application
FreshMint(to, appId, soulbound, moveTo) ==
    /\ moveTo # NoAddr => FreshFor(moveTo, appId)
    /\ MintCollectible(Deployer, to, appId, 0, soulbound, FALSE, moveTo)

FreshTransfer(from, to, t) ==
    /\ FreshFor(to, licenses[t].appId)
    /\ Transfer(from, to, t)

NextFresh ==
    \/ \E to \in Users, appId \in AppIds, soulbound \in BOOLEAN :
          \E moveTo \in Moves(to) : FreshMint(to, appId, soulbound, moveTo)
    \/ \E from \in Users, to \in Users, t \in TokenIds : FreshTransfer(from, to, t)
    \/ \E caller \in Users, t \in TokenIds : Burn(caller, t)
    \/ \E caller \in Callers, t \in TokenIds : Revoke(caller, t)

SpecFresh == Init /\ [][NextFresh]_vars

\* licenses with and without an expiry, minted by the minter or by their
\* holder through open minting, while the clock runs
NextRemint ==
    \/ \E to \in Users, appId \in AppIds, expiry \in Expiries :
          \E moveTo \in Moves(to) :
            MintCollectible(Deployer, to, appId, expiry, FALSE, FALSE, moveTo)
    \/ \E caller \in Users, expiry \in Expiries :
            OpenMint(caller, "x", expiry, FALSE, FALSE, NoAddr)
    \/ \E enabled \in BOOLEAN : SetOpenMinting(Deployer, enabled)
    \/ \E root \in Roots : SetMerkleRoot(Deployer, root)
    \/ \E from \in Users, to \in Users, t \in TokenIds : Transfer(from, to, t)
    \/ \E caller \in Users, t \in TokenIds : Burn(caller, t)
    \/ \E caller \in Callers, t \in TokenIds : Revoke(caller, t)
    \/ Tick

SpecRemint == Init /\ [][NextRemint]_vars

\* ------------------------------------------------------------ vocabulary
\* token t exists: minted and neither burned nor revoked
Live(t) == owners[t] # NoAddr
\* token t is a license: it exists and carries an application id
Licensed(t) == Live(t) /\ NonEmpty(licenses[t].appId)
\* the slots of the index that hold t
IndexEntries(t) == {s \in Addrs \X Digests : userAppToken[s[1]][s[2]] = t}
\* the licenses of application appId that owner holds
Held(owner, appId) ==
    {t \in TokenIds : Live(t) /\ owners[t] = owner /\ licenses[t].appId = appId}
LicenseApps == AppIds \ {""}
\* the step is the transaction of the call whose outcome is r
Applied(r) == r.err = Ok /\ Storage' = r.S /\ Storage' # Storage

\* the outcome, in the current state, of every call of the ledger with
\* every input
MintCalls ==
    {MintCollectibleCall(Storage, caller, to, appId, 0, soulbound, ephemeral, moveTo) :
        caller \in Callers, to \in Users, appId \in AppIds, soulbound \in BOOLEAN,
        ephemeral \in BOOLEAN, moveTo \in {NoAddr} \cup Users}
OpenMintCalls ==
    {OpenMintCall(Storage, caller, appId, 0, soulbound, ephemeral, moveTo) :
        caller \in Users, appId \in AppIds, soulbound \in BOOLEAN,
        ephemeral \in BOOLEAN, moveTo \in {NoAddr} \cup Users}
BatchMintCalls ==
    {BatchMintCall(Storage, caller, entries, nRest) :
        caller \in Callers, entries \in Lists(BatchEntries), nRest \in 0..MaxBatch}
TokenCalls ==
    {TransferFrom(Storage, from, to, t) : from \in Users, to \in Users, t \in TokenIds}
    \cup {RedeemCall(Storage, caller, t) : caller \in Addrs, t \in TokenIds}
    \cup {BurnCall(Storage, caller, t) : caller \in Addrs, t \in TokenIds}
    \cup {RevokeCall(Storage, caller, t) : caller \in Addrs, t \in TokenIds}
LedgerCalls == MintCalls \cup OpenMintCalls \cup BatchMintCalls \cup TokenCalls

\* ---------------------------------------------------------------- claims

\* C1 (I1, index completeness): every live license t has exactly one index
\* entry, and it is (owner(t), hash(applicationId(t))) -> t.  Stated for the
\* tokens that carry an application id.
C1_IndexComplete ==
    \A t \in TokenIds :
        Licensed(t) => IndexEntries(t) = {<<owners[t], keccak256(licenses[t].appId)>>}

\* C2 (I2): no address owns two distinct live licenses of one application.
C2_OneLicensePerOwnerPerApp ==
    \A t1, t2 \in TokenIds :
        (Licensed(t1) /\ Licensed(t2) /\ t1 # t2 /\ owners[t1] = owners[t2])
            => licenses[t1].appId # licenses[t2].appId

\* C3 (P2): a mint to an address that owns a live license of the application
\* fails with DuplicateLicense and changes nothing.  Stated for non-empty
\* application ids and while supply is left, where no other check of the
\* mint answers first.
C3_DuplicateMintRejected ==
    \A to \in Users, appId \in LicenseApps :
        (Held(to, appId) # {} /\ nextTokenId < MAX_SUPPLY) =>
            LET r == MintCollectibleCall(Storage, Deployer, to, appId, 0, FALSE, FALSE, NoAddr)
            IN  r.err = DuplicateLicense /\ r.S = Storage

\* every transfer of t by its owner is refused as soulbound, in storage S
Locked(S, t) ==
    \A dest \in Users :
        LET x == TransferFrom(S, S.owners[t], dest, t)
        IN  x.err = SoulboundLocked /\ x.S = S

\* C4 (I3/P3): after a mint with soulbound = true, whatever the application
\* id, every transfer of the new token fails with SoulboundLocked and
\* changes nothing.
C4_SoulboundLocked ==
    [][\A to \in Users, appId \in AppIds, ephemeral \in BOOLEAN :
         LET r == MintCollectibleCall(Storage, Deployer, to, appId, 0, TRUE, ephemeral, NoAddr)
         IN  Applied(r) => Locked(Storage', r.id)]_vars

\* C5 (I5): every non-zero value of the index is the id of a token that
\* exists (so a burn or revoke leaves no entry of its token behind).
C5_NoDanglingEntry ==
    \A a \in Addrs, h \in Digests :
        userAppToken[a][h] # 0 => Live(userAppToken[a][h])

\* license t has an expiry and it is past at time now
Expired(t, now) == licenses[t].expiry # 0 /\ now > licenses[t].expiry

\* C6 (P5): a request served on one state of the ledger answers NoLicense
\* when the wallet holds no live license of the application, LicenseExpired
\* when it holds one whose expiry is past, and otherwise a credential whose
\* tokenId is the index lookup.
C6_IssuanceOutcomes ==
    \A wallet \in Users, appId \in LicenseApps, now \in Times :
        LET r == IssueAccess(Storage, wallet, appId, now)
        IN  /\ Held(wallet, appId) = {} => r.status = NoLicenseError
            /\ \A t \in Held(wallet, appId) :
                   IF Expired(t, now) THEN r.status = LicenseExpired
                   ELSE /\ r.status = Issued
                        /\ r.tokenId = UserAppToken(Storage, wallet, appId)

\* C7: after a successful transfer of license t from `from` to another
\* address `to`, the index maps (to, app) to t and (from, app) to nothing,
\* `from` is answered NoLicense and `to` a credential for t.
C7_AccessFollowsTransfer ==
    [][\A from \in Users, to \in Users, t \in TokenIds :
         LET r == TransferFrom(Storage, from, to, t)
             appId == licenses[t].appId
         IN  (from # to /\ NonEmpty(appId) /\ Applied(r)) =>
                /\ UserAppToken(Storage', to, appId) = t
                /\ UserAppToken(Storage', from, appId) = 0
                /\ IssueAccess(Storage', from, appId, 0).status = NoLicenseError
                /\ IssueAccess(Storage', to, appId, 0) = Response(Issued, to, t)]_vars

\* in storage S the owner of t redeems it once, and a second time in vain
RedeemsOnce(S, t) ==
    LET first == RedeemCall(S, S.owners[t], t)
        second == RedeemCall(first.S, first.S.owners[t], t)
    IN  /\ first.err = Ok
        /\ first.S.redeemed[t]
        /\ second.err = AlreadyRedeemed
        /\ second.S = first.S

\* C8 (P4): after a mint with ephemeral = true, whatever the application
\* id, the owner's first redeem succeeds and sets the flag and the second
\* fails with AlreadyRedeemed and changes nothing.
C8_RedeemOnceThenFails ==
    [][\A to \in Users, appId \in AppIds, soulbound \in BOOLEAN :
         LET r == MintCollectibleCall(Storage, Deployer, to, appId, 0, soulbound, TRUE, NoAddr)
         IN  Applied(r) => RedeemsOnce(Storage', r.id)]_vars

\* C9 (I4): redeemed[t] never goes back to false; it becomes true only in
\* the step of a redeem by the owner of t, with the ephemeral flag of t
\* set; and once it is true no redeem of t succeeds again, whoever calls.
C9_RedeemedOneWay ==
    [][\A t \in TokenIds :
         /\ redeemed[t] => redeemed'[t]
         /\ (~redeemed[t] /\ redeemed'[t]) =>
                /\ Live(t)
                /\ licenses[t].ephemeral
                /\ Applied(RedeemCall(Storage, owners[t], t))
         /\ redeemed[t] =>
                \A caller \in Addrs : RedeemCall(Storage, caller, t).err # Ok]_vars

\* C9 witness: a license has been redeemed, and another one burned after
\* its redeem
C9_Witness ==
    \E t1, t2 \in TokenIds :
        /\ redeemed[t1] /\ Live(t1) /\ licenses[t1].ephemeral
        /\ redeemed[t2] /\ ~Live(t2)

\* the outcome of a mint call allocates the next id, or nothing
AllocatesNext(r) ==
    IF r.err = Ok
    THEN /\ r.id = mints + 1
         /\ r.S.nextTokenId = r.id
         /\ ~Live(r.id)
         /\ r.S.owners[r.id] # NoAddr
    ELSE r.S = Storage

\* in the current state: the counter is the number of mints made, no id
\* above it was ever touched, and every mint call would allocate the next
\* id or change nothing
IdsDense ==
    /\ nextTokenId = mints
    /\ \A t \in TokenIds : t > nextTokenId => ~Live(t) /\ licenses[t] = NoLicense
    /\ \A to \in Users, appId \in AppIds, moveTo \in {NoAddr} \cup Users :
         /\ AllocatesNext(MintCollectibleCall(Storage, Deployer, to, appId, 0,
                                              FALSE, FALSE, moveTo))
         /\ AllocatesNext(OpenMintCall(Storage, to, appId, 0, FALSE, FALSE, moveTo))
    /\ \A entries \in Lists(BatchEntries) :
         LET r == BatchMintCall(Storage, Deployer, entries, Len(entries))
         IN  IF r.err = Ok THEN r.S.nextTokenId = mints + Len(entries)
             ELSE r.S = Storage

\* C10 (I6): the k-th successful mint returns id k, so ids are dense from
\* 1 and id 0 is no token; a rejected mint consumes no id; and the counter
\* never goes down, so no id is given twice, burn or no burn.
C10_IdAllocation ==
    /\ []IdsDense
    /\ [][nextTokenId' >= nextTokenId]_vars

\* C10 witness: two mints were made and the first token is burned
C10_Witness ==
    nextTokenId = 2 /\ mints = 2 /\ ~Live(1) /\ Live(2)

\* C11: for every interleaving of a request with transactions of the
\* ledger, a credential is issued on one committed state: in the state the
\* expiry was read in, the index maps the wallet to the token the credential
\* names, and the wallet owns that token of that application.
C11_IssuanceReadsOneState ==
    [][(req.pc = "check" /\ req'.pc = "idle" /\ resp'.status = Issued) =>
          /\ CheckLicense(Storage, req.wallet, req.appId).tokenId = resp'.tokenId
          /\ owners[resp'.tokenId] = req.wallet
          /\ licenses[resp'.tokenId].appId = req.appId]_vars

\* C12: once a transfer, burn or revoke of the token of an outstanding
\* credential is committed and a unit of time has passed for its event to
\* be consumed, the credential is invalid, whatever is left of its TTL.
C12_CredentialInvalidated ==
    [][(clock' = clock + 1 /\ resp.status = Issued
            /\ owners[resp.tokenId] # resp.wallet) =>
          ~CredentialValid(clock)']_vars

\* C13: every call of the ledger that fails, with whatever error, leaves
\* the registry, the index, the id counter and the redeemed flags as they
\* were and no event in the log, also when the check that fails comes after
\* the id was allocated and the token created.
C13_AtomicRejection ==
    \A r \in LedgerCalls :
        r.err # Ok => r.S = Storage /\ r.log = <<>> /\ r.id = 0

\* C13 witness: a token exists and a mint with supply left fails on its
\* duplicate check, after the allocation of the id
C13_Witness ==
    /\ nextTokenId >= 1 /\ nextTokenId < MAX_SUPPLY
    /\ \E r \in MintCalls : r.err = DuplicateLicense
    /\ \E r \in TokenCalls : r.err = SoulboundLocked

\* C14: the number of tokens ever minted, burned ones included, is at most
\* MAX_SUPPLY.  When it is MAX_SUPPLY no mint call creates a token or
\* changes anything, and the calls that reach the supply check (a minter's
\* mint, a minter's non-empty batch of equal lists, an openMint while open
\* minting is enabled) fail with CapacityExceeded; a batch with more
\* entries than supply left fails as a whole.  Burns do not change this.
C14_CapacityBound ==
    /\ mints <= MAX_SUPPLY /\ nextTokenId <= MAX_SUPPLY
    /\ \A entries \in Lists(BatchEntries) :
         LET r == BatchMintCall(Storage, Deployer, entries, Len(entries))
         IN  Len(entries) > MAX_SUPPLY - mints => r.err # Ok /\ r.S = Storage
    /\ mints = MAX_SUPPLY =>
         /\ \A r \in MintCalls \cup OpenMintCalls \cup BatchMintCalls : r.S = Storage
         /\ \A r \in MintCalls \cup OpenMintCalls : r.err # Ok
         /\ \A to \in Users, appId \in AppIds, flag \in BOOLEAN,
               moveTo \in {NoAddr} \cup Users :
              /\ MintCollectibleCall(Storage, Deployer, to, appId, 0, flag, flag,
                                     moveTo).err = CapacityExceeded
              /\ openMinting =>
                    OpenMintCall(Storage, to, appId, 0, flag, flag,
                                 moveTo).err = CapacityExceeded
         /\ \A entries \in Lists(BatchEntries) \ {<<>>} :
              BatchMintCall(Storage, Deployer, entries,
                            Len(entries)).err = CapacityExceeded

\* C14 witness: the supply is used up, open minting is enabled and a token
\* has been burned or revoked
C14_Witness ==
    /\ mints = MAX_SUPPLY /\ openMinting
    /\ \E t \in TokenIds : ~Live(t)

\* the tokens that exist in storage S
LiveIn(S) == {t \in TokenIds : S.owners[t] # NoAddr}

\* C15: mint and batchMint called by an address without the minter role
\* fail with Unauthorized, whatever the state and the inputs, and change
\* nothing; while open minting is disabled every openMint fails and changes
\* nothing; and no other call creates a token or moves the id counter.  So
\* no sequence of calls lets such an address create a token while open
\* minting is disabled.
C15_MintAuthorization ==
    /\ \A caller \in Addrs :
         ~HasMinterRole(caller) =>
            /\ \A to \in Users, appId \in AppIds, soulbound \in BOOLEAN,
                  ephemeral \in BOOLEAN, moveTo \in {NoAddr} \cup Users :
                 LET r == MintCollectibleCall(Storage, caller, to, appId, 0,
                                              soulbound, ephemeral, moveTo)
                 IN  r.err = Unauthorized /\ r.S = Storage /\ r.log = <<>>
            /\ \A entries \in Lists(BatchEntries), nRest \in 0..MaxBatch :
                 LET r == BatchMintCall(Storage, caller, entries, nRest)
                 IN  r.err = Unauthorized /\ r.S = Storage /\ r.log = <<>>
    /\ ~openMinting =>
         \A r \in OpenMintCalls : r.err = OpenMintingDisabled /\ r.S = Storage
    /\ \A r \in TokenCalls :
         r.S.nextTokenId = nextTokenId /\ LiveIn(r.S) \subseteq LiveIn(Storage)

\* C15 witness: a token exists, open minting is disabled, and the mint
\* that alice is refused would succeed for the minter, alone or in a batch
C15_Witness ==
    /\ ~openMinting /\ mints >= 1
    /\ MintCollectibleCall(Storage, "alice", "alice", "x", 0, FALSE, FALSE, NoAddr).err
            = Unauthorized
    /\ MintCollectibleCall(Storage, Deployer, "alice", "x", 0, FALSE, FALSE, NoAddr).err = Ok
    /\ BatchMintCall(Storage, Deployer, <<<<"alice", "x">>>>, 1).err = Ok

\* what openMint by caller answers in the current state, and what it should:
\* the refusal of the flag, the refusal of the allowlist, the outcome of
\* the same mint made by the minter for the caller, and on success a token
\* and an index entry that are the caller's
OpenMintGated(caller, appId, soulbound, ephemeral, moveTo) ==
    LET r == OpenMintCall(Storage, caller, appId, 0, soulbound, ephemeral, moveTo)
        m == MintCollectibleCall(Storage, Deployer, caller, appId, 0,
                                 soulbound, ephemeral, moveTo)
        listed == merkleRoot = "0" \/ MerkleVerify(merkleRoot, caller)
    IN  /\ ~openMinting => r.err = OpenMintingDisabled /\ r.S = Storage
        /\ (openMinting /\ nextTokenId < MAX_SUPPLY /\ ~listed) =>
                r.err = NotAllowlisted /\ r.S = Storage
        /\ (openMinting /\ listed) => r.err = m.err /\ r.S = m.S /\ r.id = m.id
        /\ r.err = Ok =>
                /\ r.S.owners[r.id] = caller
                /\ NonEmpty(appId) => r.S.userAppToken[caller][keccak256(appId)] = r.id

\* C16: openMint fails while the flag is false; with an allowlist root set
\* and supply left it fails with NotAllowlisted for a caller the proof does
\* not verify; past those gates it answers as mint does (same duplicate and
\* capacity checks); and on success the new token and its index entry are
\* the caller's, whatever the caller does on receipt of the token.
C16_OpenMintGating ==
    \A caller \in Users, appId \in AppIds, soulbound \in BOOLEAN, ephemeral \in BOOLEAN :
        \A moveTo \in Moves(caller) :
            OpenMintGated(caller, appId, soulbound, ephemeral, moveTo)

\* C17: a batchMint by the minter whose lists do not all have the same
\* length fails with ArityMismatch, whatever its entries would do, and
\* leaves the registry, the index, the id counter and the log as they were.
C17_BatchArity ==
    \A entries \in Lists(BatchEntries), nRest \in 0..MaxBatch :
        Len(entries) # nRest =>
            LET r == BatchMintCall(Storage, Deployer, entries, nRest)
            IN  r.err = ArityMismatch /\ r.S = Storage /\ r.log = <<>> /\ r.id = 0

\* C17 witness: a token exists, and of the batches refused for their
\* lengths one would mint all its entries with equal lists and one would
\* fail on a duplicate
C17_Witness ==
    /\ mints >= 1
    /\ \E entries \in Lists(BatchEntries) :
         /\ Len(entries) >= 1
         /\ BatchMintCall(Storage, Deployer, entries, Len(entries)).err = Ok
         /\ BatchMintCall(Storage, Deployer, entries, Len(entries) - 1).err = ArityMismatch
    /\ \E entries \in Lists(BatchEntries) :
         /\ BatchMintCall(Storage, Deployer, entries, Len(entries)).err = DuplicateLicense
         /\ BatchMintCall(Storage, Deployer, entries, Len(entries) + 1).err = ArityMismatch

\* the entries of a batch processed independently, from storage S: the
\* storage after the entries that do not fail, and the outcome of each
RECURSIVE BatchEach(_, _, _)
BatchEach(S, entries, i) ==
    IF i > Len(entries) THEN [S |-> S, errs |-> <<>>]
    ELSE LET r == MintBody(S, entries[i][1], entries[i][2], 0, FALSE, FALSE, NoAddr)
             rest == BatchEach(IF r.err = Ok THEN r.S ELSE S, entries, i + 1)
         IN [S |-> rest.S, errs |-> <<r.err>> \o rest.errs]

\* the first outcome of a list of outcomes that is an error, Ok if none is
FirstError(errs) ==
    IF \A i \in 1..Len(errs) : errs[i] = Ok THEN Ok
    ELSE errs[CHOOSE i \in 1..Len(errs) :
                  errs[i] # Ok /\ \A j \in 1..(i - 1) : errs[j] = Ok]

\* C18, as claimed: in a batchMint by the minter with equal lists, the
\* entries that do not fail are applied also when another entry fails.
C18_BatchPerEntry ==
    \A entries \in Lists(BatchEntries) :
        BatchMintCall(Storage, Deployer, entries, Len(entries)).S
            = BatchEach(Storage, entries, 1).S

\* C18, amended: a batchMint by the minter with equal lists in which an
\* entry fails is refused as a whole with the error of the first entry
\* that fails, and no entry is applied; a batch in which no entry fails
\* applies every entry, in order.
C18_BatchAllOrNothing ==
    \A entries \in Lists(BatchEntries) :
        LET r == BatchMintCall(Storage, Deployer, entries, Len(entries))
            each == BatchEach(Storage, entries, 1)
        IN  IF FirstError(each.errs) = Ok
            THEN /\ r.err = Ok /\ r.S = each.S
                 /\ r.S.nextTokenId = nextTokenId + Len(entries)
            ELSE /\ r.err = FirstError(each.errs)
                 /\ r.err \in {DuplicateLicense, CapacityExceeded}
                 /\ r.S = Storage /\ r.log = <<>>

\* C18 witness: a token exists and a batch is refused whose first entry
\* would be minted and whose second entry fails
C18_Witness ==
    /\ mints >= 1
    /\ \E entries \in Lists(BatchEntries) :
         LET each == BatchEach(Storage, entries, 1)
         IN  /\ Len(entries) = 2
             /\ each.errs[1] = Ok /\ each.errs[2] # Ok
             /\ BatchMintCall(Storage, Deployer, entries, 2).err = each.errs[2]

\* a successful burn of t by caller, with outcome r: t exists no more, its
\* license is erased and the caller's slot of its application does not
\* return t
Burned(r, caller, t) ==
    /\ r.err = Ok
    /\ ~Exists(r.S, t)
    /\ r.S.licenses[t] = NoLicense
    /\ UserAppToken(r.S, caller, licenses[t].appId) # t
    /\ r.S.nextTokenId = nextTokenId /\ r.S.redeemed = redeemed

\* C19, as claimed: burn(caller, t) fails with NotOwner unless caller is
\* the owner of t, also when t does not exist; by the owner it succeeds,
\* soulbound and expired tokens included.
C19_BurnOwnerOnly ==
    \A caller \in Addrs, t \in TokenIds :
        LET r == BurnCall(Storage, caller, t)
        IN  IF owners[t] = caller THEN Burned(r, caller, t)
            ELSE r.err = NotOwner /\ r.S = Storage

\* C19, amended: burn of a token that exists fails with NotOwner unless
\* the caller is its owner, burn of a token that does not exist fails with
\* the registry's InvalidTokenId, and neither changes anything; by the
\* owner it succeeds, soulbound and expired tokens included.
C19_BurnOwnerOnlyOfLive ==
    \A caller \in Addrs, t \in TokenIds :
        LET r == BurnCall(Storage, caller, t)
        IN  IF owners[t] = caller THEN Burned(r, caller, t)
            ELSE /\ r.err = IF Live(t) THEN NotOwner ELSE InvalidTokenId
                 /\ r.S = Storage /\ r.log = <<>>

\* C19 witness: a token has been burned or revoked, and a soulbound token
\* whose expiry is past is held and its owner's burn succeeds
C19_Witness ==
    /\ \E t \in TokenIds : t <= nextTokenId /\ ~Live(t)
    /\ \E t \in TokenIds :
         /\ Live(t) /\ licenses[t].soulbound /\ Expired(t, clock)
         /\ BurnCall(Storage, owners[t], t).err = Ok

\* the slots of the index of storage S that hold t
IndexEntriesIn(S, t) == {s \in Addrs \X Digests : S.userAppToken[s[1]][s[2]] = t}

\* the outcome r of revoke(t) is a success that removed t from the
\* registry, erased its license, left no index slot holding t and every
\* other slot as it was, and logged LicenseRevoked(t)
Revoked(r, t) ==
    /\ r.err = Ok
    /\ ~Exists(r.S, t)
    /\ r.S.licenses[t] = NoLicense
    /\ IndexEntriesIn(r.S, t) = {}
    /\ \A a \in Addrs, h \in Digests :
         userAppToken[a][h] # t => r.S.userAppToken[a][h] = userAppToken[a][h]
    /\ \A u \in TokenIds \ {t} :
         r.S.owners[u] = owners[u] /\ r.S.licenses[u] = licenses[u]
    /\ r.S.nextTokenId = nextTokenId /\ r.S.redeemed = redeemed
    /\ \E i \in 1..Len(r.log) : r.log[i] = LicenseRevoked(t)

\* C20: revoke(caller, t) fails with the unauthorized-caller error of the
\* contract (the onlyOwner one) and changes nothing unless caller is the
\* administrator; called by the administrator on a live token it succeeds
\* whoever owns t, soulbound or not, removes t from the registry, removes
\* the index entry that maps to t, leaves every other index entry as it is
\* and emits LicenseRevoked.
C20_RevokeAdminOnly ==
    \A caller \in Addrs, t \in TokenIds :
        LET r == RevokeCall(Storage, caller, t)
        IN  IF ~HasAdminRole(caller)
            THEN r.err = NotContractOwner /\ r.S = Storage /\ r.log = <<>>
            ELSE Live(t) => Revoked(r, t)

\* the token id an event names
EventToken(e) ==
    CASE e[1] = "Transfer" -> e[4]
      [] e[1] = "LicenseMinted" -> e[3]
      [] e[1] = "Redeemed" -> e[3]
      [] e[1] = "LicenseRevoked" -> e[2]

\* event e is in the log
Emits(log, e) == \E i \in 1..Len(log) : log[i] = e

\* the log of a successful mint of token id to `to`: it holds
\* LicenseMinted(to, id, appId, expiry), and no transfer of id between two
\* addresses comes before it
MintLogged(r, to, appId, expiry) ==
    \E i \in 1..Len(r.log) :
        /\ r.log[i] = LicenseMinted(to, r.id, appId, expiry)
        /\ \A j \in 1..(i - 1) :
              (r.log[j][1] = "Transfer" /\ EventToken(r.log[j]) = r.id)
                  => r.log[j][2] = NoAddr

\* C21: every successful mint and openMint emits LicenseMinted(to, tokenId,
\* appId, expiry), before any later event of that token; every successful
\* transfer emits Transfer(from, to, t); every successful burn emits the
\* Transfer of t to the zero address (the contract has no event of its own
\* for a burn); every successful revoke emits LicenseRevoked(t); every
\* successful redeem emits Redeemed(caller, t).
C21_OneEventPerTransition ==
    /\ \A to \in Users, appId \in AppIds, expiry \in Expiries, soulbound \in BOOLEAN,
          ephemeral \in BOOLEAN, moveTo \in {NoAddr} \cup Users :
         LET r == MintCollectibleCall(Storage, Deployer, to, appId, expiry,
                                      soulbound, ephemeral, moveTo)
         IN  r.err = Ok => MintLogged(r, to, appId, expiry)
    /\ \A caller \in Users, appId \in AppIds, expiry \in Expiries, soulbound \in BOOLEAN,
          ephemeral \in BOOLEAN, moveTo \in {NoAddr} \cup Users :
         LET r == OpenMintCall(Storage, caller, appId, expiry,
                               soulbound, ephemeral, moveTo)
         IN  r.err = Ok => MintLogged(r, caller, appId, expiry)
    /\ \A from \in Users, to \in Users, t \in TokenIds :
         LET r == TransferFrom(Storage, from, to, t)
         IN  r.err = Ok => r.log = <<TransferEvent(from, to, t)>>
    /\ \A caller \in Addrs, t \in TokenIds :
         /\ LET r == BurnCall(Storage, caller, t)
            IN  r.err = Ok => Emits(r.log, TransferEvent(caller, NoAddr, t))
         /\ LET r == RevokeCall(Storage, caller, t)
            IN  r.err = Ok => Emits(r.log, LicenseRevoked(t))
         /\ LET r == RedeemCall(Storage, caller, t)
            IN  r.err = Ok => Emits(r.log, RedeemedEvent(caller, t))

\* C22: a license whose expiry is past is answered LicenseExpired when its
\* owner asks for access, and a step of the ledger or of the clock leaves
\* it in the registry with its record and in the index, unless the step is
\* its burn by the owner or its revoke by the administrator.
C22_ExpiryReadTimeOnly ==
    [][\A t \in TokenIds :
         (Licensed(t) /\ Expired(t, clock)) =>
            /\ IssueAccess(Storage, owners[t], licenses[t].appId, clock).status
                   = LicenseExpired
            /\ \/ Applied(BurnCall(Storage, owners[t], t))
               \/ Applied(RevokeCall(Storage, Deployer, t))
               \/ /\ owners'[t] # NoAddr
                  /\ licenses'[t] = licenses[t]
                  /\ IndexEntries(t) # {} => IndexEntriesIn(Storage', t) # {}]_vars

\* the token that the successful mint r created carries the attributes
\* the mint was called with
MintedWith(r, appId, expiry, soulbound, ephemeral) ==
    r.err = Ok => r.S.licenses[r.id] = License(appId, expiry, soulbound, ephemeral)

\* C23: the token a mint or open mint creates carries the appId, expiry,
\* soulbound and ephemeral the call was given, and a step that leaves a
\* live token in the registry leaves these four as they are: only the
\* burn or revoke of the token erases them.
C23_AttributesImmutable ==
    [][/\ \A to \in Users, appId \in AppIds, expiry \in Expiries, soulbound \in BOOLEAN,
             ephemeral \in BOOLEAN, moveTo \in {NoAddr} \cup Users :
            /\ MintedWith(MintCollectibleCall(Storage, Deployer, to, appId, expiry,
                                              soulbound, ephemeral, moveTo),
                          appId, expiry, soulbound, ephemeral)
            /\ MintedWith(OpenMintCall(Storage, to, appId, expiry,
                                       soulbound, ephemeral, moveTo),
                          appId, expiry, soulbound, ephemeral)
       /\ \A t \in TokenIds :
            (Live(t) /\ owners'[t] # NoAddr) => licenses'[t] = licenses[t]]_vars

\* C24 (index soundness): an index slot (o, h) that holds a token t holds
\* a live token owned by o whose application id hashes to h; and a request
\* served on one state of the ledger issues a credential only for a token
\* that the wallet owns.
C24_IndexSound ==
    /\ \A o \in Addrs, h \in Digests :
         LET t == userAppToken[o][h]
         IN  t # 0 => Live(t) /\ owners[t] = o /\ keccak256(licenses[t].appId) = h
    /\ \A wallet \in Users, appId \in AppIds, now \in Times :
         LET r == IssueAccess(Storage, wallet, appId, now)
         IN  r.status = Issued =>
                r.tokenId \in TokenIds /\ owners[r.tokenId] = wallet

\* C25: a successful burn(caller, t) leaves every index slot that holds a
\* token other than t as it is; so the slot of caller for the application
\* still holds another live token of caller that it held before.
C25_BurnOwnEntryOnly ==
    \A caller \in Addrs, t \in TokenIds :
        LET r == BurnCall(Storage, caller, t)
        IN  r.err = Ok =>
               \A a \in Addrs, h \in Digests :
                   (userAppToken[a][h] # 0 /\ userAppToken[a][h] # t)
                       => r.S.userAppToken[a][h] = userAppToken[a][h]

\* the successful mint r of a token to `to`, whose receipt callback passed
\* the token on, left the index entry of the token at its owner, and left
\* a soulbound token with `to`
CallbackSafe(r, to, appId, soulbound) ==
    r.err = Ok =>
        /\ NonEmpty(appId) =>
               IndexEntriesIn(r.S, r.id) = {<<r.S.owners[r.id], keccak256(appId)>>}
        /\ soulbound => r.S.owners[r.id] = to

\* C26: when the recipient of a mint or open mint transfers the new token
\* to another address inside the receipt callback, then after the mint the
\* index entry of the token is at its owner, and a token minted soulbound
\* is still with the recipient.
C26_MintCallbackAtomic ==
    \A to \in Users, appId \in AppIds, soulbound \in BOOLEAN, ephemeral \in BOOLEAN :
        \A moveTo \in Users \ {to} :
            /\ CallbackSafe(MintCollectibleCall(Storage, Deployer, to, appId, 0,
                                                soulbound, ephemeral, moveTo),
                            to, appId, soulbound)
            /\ CallbackSafe(OpenMintCall(Storage, to, appId, 0,
                                         soulbound, ephemeral, moveTo),
                            to, appId, soulbound)

\* C27, as claimed: the credential issued for a license with a non-zero
\* expiry E expires no later than E.
C27_CredentialWithinExpiry ==
    \A t \in TokenIds :
        (resp.status = Issued /\ resp.tokenId = t /\ Live(t) /\ licenses[t].expiry # 0)
            => issuedAt + TTL <= licenses[t].expiry

\* C27, amended: when the handler answers with a credential, the license
\* that the index holds for the wallet and the application at the second
\* read has no expiry or an expiry E that is not past, and the credential
\* is dated from the time of the answer: it expires at issuedAt + TTL,
\* which is at most E + TTL.
C27_CredentialIssuedBeforeExpiry ==
    [][(req.pc = "check" /\ req'.pc = "idle" /\ resp'.status = Issued) =>
          LET t == UserAppToken(Storage, req.wallet, req.appId)
          IN  /\ issuedAt' = clock
              /\ (t # 0 /\ Live(t) /\ licenses[t].expiry # 0) =>
                     /\ clock <= licenses[t].expiry
                     /\ issuedAt' + TTL <= licenses[t].expiry + TTL]_vars

\* C27 witness: a credential issued for a license with an expiry is still
\* valid at a time past that expiry, when a new request of its wallet is
\* answered LicenseExpired
C27_Witness ==
    /\ resp.status = Issued /\ resp.tokenId \in TokenIds
    /\ Live(resp.tokenId) /\ owners[resp.tokenId] = resp.wallet
    /\ Expired(resp.tokenId, clock)
    /\ CredentialValid(clock)
    /\ IssueAccess(Storage, resp.wallet, licenses[resp.tokenId].appId, clock).status
           = LicenseExpired

\* C28: when no transfer goes to an address that holds a live license of
\* the token's application, every live license has its index entry at
\* (owner, hash(appId)), and a request is answered NoLicense only when the
\* wallet holds no live license of the application.
C28_CompleteWithoutOccupied ==
    /\ \A t \in TokenIds :
         Licensed(t) => userAppToken[owners[t]][keccak256(licenses[t].appId)] = t
    /\ \A wallet \in Users, appId \in LicenseApps :
         IssueAccess(Storage, wallet, appId, 0).status = NoLicenseError
             => Held(wallet, appId) = {}

\* openMint by caller passes its gates: the flag, the supply, the allowlist
OpenMintAdmits(caller) ==
    /\ openMinting
    /\ nextTokenId < MAX_SUPPLY
    /\ merkleRoot = "0" \/ MerkleVerify(merkleRoot, caller)

C30_ExpiryBoundary ==
    /\ \A wallet \in Users, t \in TokenIds, E \in UInt64, now \in Times :
         AfterCheck(wallet, t, [err |-> Ok, tokenId |-> t, expiry |-> E], now)
           = IF E # 0 /\ now > E THEN Response(LicenseExpired, wallet, 0)
             ELSE Response(Issued, wallet, t)
    /\ \A wallet \in Users, appId \in LicenseApps, now \in Times :
         LET t == UserAppToken(Storage, wallet, appId)
         IN  (t # 0 /\ Live(t)) =>
                IssueAccess(Storage, wallet, appId, now)
                  = IF licenses[t].expiry # 0 /\ now > licenses[t].expiry
                    THEN Response(LicenseExpired, wallet, 0)
                    ELSE Response(Issued, wallet, t)

\* C30 witness: alice holds a license with expiry 1 and bob one without
\* expiry; alice is issued a credential at time 1 and refused at time 2,
\* bob is issued one at the last time of the clock
C30_Witness ==
    \E t1, t2 \in TokenIds :
        /\ UserAppToken(Storage, "alice", "x") = t1 /\ owners[t1] = "alice"
        /\ UserAppToken(Storage, "bob", "x") = t2 /\ owners[t2] = "bob"
        /\ licenses[t1].expiry = 1 /\ licenses[t2].expiry = 0
        /\ IssueAccess(Storage, "alice", "x", 1).status = Issued
        /\ IssueAccess(Storage, "alice", "x", 2).status = LicenseExpired
        /\ IssueAccess(Storage, "bob", "x", MaxTime).status = Issued
====
